---- MODULE Spec2Model ----
(***************************************************************************)
(* Model of load_data (streamlit_app.py): header normalisation, duplicate  *)
(* renaming, numeric coercion of the financial columns and the derived     *)
(* totals; and of one run of the page script that calls it: the sidebar    *)
(* filters, the sections of the dashboard and the report button.           *)
(*                                                                         *)
(* A Python string is a sequence of one-character strings, so that the     *)
(* string methods the code calls (strip, replace, upper, startswith,       *)
(* endswith, in) are computed character by character.                      *)
(***************************************************************************)
EXTENDS Integers, Sequences, FiniteSets, TLC

VARIABLES
    pc,          \* position in the run
    col_name,    \* clean_col_name: the raw label passed in
    folded,      \* clean_col_name: col_name after line 23
    upper_name,  \* clean_col_name: col_name after line 24
    cleaned,     \* clean_col_name: the returned label
    recleaned,   \* clean_col_name applied to its own result
    raw_columns, \* df.columns as read by pd.read_csv
    columns,     \* df.columns
    raw_frame,   \* the columns' cells as read by pd.read_csv
    frame,       \* the columns' cells (frame[i] belongs to columns[i])
    error,       \* the exception raised, or "none"
    uploaded_file, \* what st.file_uploader returned
    namespace,   \* the page script's variables: unbound, None, a figure, a value
    rendered,    \* the elements the script run has put on the page
    selection,   \* the choices read from the select boxes and the button
    filtered_df  \* filtered_df: the index labels of its rows, in order

vars == <<pc, col_name, folded, upper_name, cleaned, recleaned,
          raw_columns, columns, raw_frame, frame, error,
          uploaded_file, namespace, rendered, selection, filtered_df>>

page_vars == <<uploaded_file, namespace, rendered, selection, filtered_df>>

\* the value of error while nothing has been raised, and an exception of
\* the given type raised while the named column was worked on
NoError == [type |-> "none", column |-> <<>>]

Raised(type, name) == [type |-> type, column |-> name]

\* the variables the page script passes to generate_html_report
ScriptNames ==
    { "filtered_df", "total_business_allocation", "total_current_eac",
      "total_actuals_to_date", "total_projects", "monthly_combined_df",
      "fig_monthly_trends", "fig_qe_variance", "fig_ba_variance",
      "fig_portfolio_alloc", "fig_sub_portfolio_alloc", "fig_brs_alloc",
      "selected_project_name", "project_details", "fig_project_monthly" }

\* the namespace of a script run that has assigned nothing yet
Unbound == [n \in ScriptNames |-> "unbound"]

\* the first option of the four sidebar select boxes and of the project's
All == <<"A","l","l">>

SelectAProject == <<"S","e","l","e","c","t"," ","a"," ","P","r","o","j","e","c","t">>

\* the select boxes at their first option, the button not pressed
NoSelection ==
    [portfolio |-> All, sub_portfolio |-> All, manager |-> All,
     brs_classification |-> All, project |-> SelectAProject, report |-> FALSE]

\* load_data taken by itself: a readable file, no page script running
PageIdle ==
    /\ uploaded_file = "csv"
    /\ namespace = Unbound
    /\ rendered = {}
    /\ selection = NoSelection
    /\ filtered_df = <<>>

----------------------------------------------------------------------------
(* Bounds *)

MaxTokens == 3   \* a raw label is built of at most this many tokens
MaxHeaders == 4  \* a header row has at most this many labels
MaxColumns == 3  \* an uploaded table has at most this many columns

----------------------------------------------------------------------------
(* Python string methods *)

LowerCase == <<"a","b","c","d","e","f","g","h","i","j","k","l","m","n","o","p","q","r","s","t","u","v","w","x","y","z">>
UpperCase == <<"A","B","C","D","E","F","G","H","I","J","K","L","M","N","O","P","Q","R","S","T","U","V","W","X","Y","Z">>

\* the upper-case letter of each lower-case letter
ToUpper ==
    [c \in {LowerCase[i] : i \in 1..Len(LowerCase)} |->
        UpperCase[CHOOSE i \in 1..Len(LowerCase) : LowerCase[i] = c]]

\* str.upper() on one character
UpperChar(c) == IF c \in DOMAIN ToUpper THEN ToUpper[c] ELSE c

\* str.upper()
Upper(s) == [i \in 1..Len(s) |-> UpperChar(s[i])]

\* str.strip(): leading and trailing whitespace removed
RECURSIVE LStrip(_)
LStrip(s) == IF s # <<>> /\ Head(s) = " " THEN LStrip(Tail(s)) ELSE s

RECURSIVE RStrip(_)
RStrip(s) ==
    IF s # <<>> /\ s[Len(s)] = " " THEN RStrip(SubSeq(s, 1, Len(s) - 1)) ELSE s

Strip(s) == RStrip(LStrip(s))

\* s.startswith(p), s.endswith(p), p in s
StartsWith(s, p) == Len(p) <= Len(s) /\ SubSeq(s, 1, Len(p)) = p

EndsWith(s, p) == Len(p) <= Len(s) /\ SubSeq(s, Len(s) - Len(p) + 1, Len(s)) = p

Contains(s, p) ==
    \E i \in 1..(Len(s) - Len(p) + 1) : SubSeq(s, i, i + Len(p) - 1) = p

\* s.replace(old, new): every non-overlapping occurrence, scanning left to
\* right, in one pass (old is never empty here)
RECURSIVE Replace(_, _, _)
Replace(s, old, new) ==
    IF Len(s) < Len(old) THEN s
    ELSE IF SubSeq(s, 1, Len(old)) = old
         THEN new \o Replace(SubSeq(s, Len(old) + 1, Len(s)), old, new)
         ELSE <<Head(s)>> \o Replace(Tail(s), old, new)

----------------------------------------------------------------------------
(* clean_col_name *)

PROJEC_TID == <<"P","R","O","J","E","C","_","T","I","D">>
PROJECT_ID == <<"P","R","O","J","E","C","T","_","I","D">>
INI_MATIVE_PROGRAM == <<"I","N","I","_","M","A","T","I","V","E","_","P","R","O","G","R","A","M">>
INITIATIVE_PROGRAM == <<"I","N","I","T","I","A","T","I","V","E","_","P","R","O","G","R","A","M">>
ALL_PRIOR_YEARS_A == <<"A","L","L","_","P","R","I","O","R","_","Y","E","A","R","S","_","A">>
ALL_PRIOR_YEARS_ACTUALS == <<"A","L","L","_","P","R","I","O","R","_","Y","E","A","R","S","_","A","C","T","U","A","L","S">>
C_URRENT_EAC == <<"C","_","U","R","R","E","N","T","_","E","A","C">>
CURRENT_EAC == <<"C","U","R","R","E","N","T","_","E","A","C">>
QE_RUN_RATE == <<"Q","E","_","R","U","N","_","R","A","T","E">>

\* line 23 with the dot replaced by an underscore instead of removed
FoldSeparatorsDotFolded(s) ==
    Replace(Replace(Replace(Replace(Replace(Strip(s),
        <<" ">>, <<"_">>), <<"+">>, <<"_">>), <<".">>, <<"_">>), <<"-">>, <<"_">>),
        <<"_","_">>, <<"_">>)

\* line 23: strip, then the five replace calls in order
FoldSeparators(s) ==
    Replace(Replace(Replace(Replace(Replace(Strip(s),
        <<" ">>, <<"_">>), <<"+">>, <<"_">>), <<".">>, <<>>), <<"-">>, <<"_">>),
        <<"_","_">>, <<"_">>)

\* lines 26-35: the five corrections, each applied to the result of the one
\* before it
CorrectTypos(s) ==
    LET s1 == IF Contains(s, PROJEC_TID)
              THEN Replace(s, PROJEC_TID, PROJECT_ID) ELSE s
        s2 == IF Contains(s1, INI_MATIVE_PROGRAM)
              THEN Replace(s1, INI_MATIVE_PROGRAM, INITIATIVE_PROGRAM) ELSE s1
        s3 == IF Contains(s2, ALL_PRIOR_YEARS_A)
              THEN Replace(s2, ALL_PRIOR_YEARS_A, ALL_PRIOR_YEARS_ACTUALS) ELSE s2
        s4 == IF Contains(s3, C_URRENT_EAC) THEN CURRENT_EAC ELSE s3
        s5 == IF Contains(s4, QE_RUN_RATE) THEN QE_RUN_RATE ELSE s4
    IN  s5

\* lines 22-36
clean_col_name(s) == CorrectTypos(Upper(FoldSeparators(s)))

----------------------------------------------------------------------------
(* Raw labels: concatenations of tokens *)

Tokens ==
    { <<" ">>, <<"_">>, <<".">>, <<"+">>, <<"-">>, <<" ","-"," ">>, <<"0">>,
      <<"P","r","o","j","e","c">>, <<"t","I","d">>,
      <<"I","n","i","_","m","a","t","i","v","e","_","P","r","o","g","r","a","m">>,
      <<"A","l","l","_","P","r","i","o","r","_","Y","e","a","r","s","_","A">>,
      <<"c","t","u","a","l","s">>,
      <<"C">>, <<"U","R","R","E","N","T","_","E","A","C">>,
      <<"Q","E","_","R","u","n","_","R","a","t","e">> }

RECURSIVE Concat(_)
Concat(ts) == IF ts = <<>> THEN <<>> ELSE Head(ts) \o Concat(Tail(ts))

Labels == UNION { { Concat(ts) : ts \in [1..k -> Tokens] } : k \in 1..MaxTokens }

----------------------------------------------------------------------------
(* clean_col_name on one label, and on its own result *)

InitClean ==
    /\ pc = "label"
    /\ col_name \in Labels
    /\ folded = <<>>
    /\ upper_name = <<>>
    /\ cleaned = <<>>
    /\ recleaned = <<>>
    /\ raw_columns = <<>>
    /\ columns = <<>>
    /\ raw_frame = <<>>
    /\ frame = <<>>
    /\ error = NoError
    /\ PageIdle

Normalize ==
    /\ pc = "label"
    /\ folded' = FoldSeparators(col_name)
    /\ upper_name' = Upper(folded')
    /\ cleaned' = clean_col_name(col_name)
    /\ pc' = "cleaned"
    /\ UNCHANGED <<col_name, recleaned, raw_columns, columns, raw_frame, frame, error>>
    /\ UNCHANGED page_vars

Renormalize ==
    /\ pc = "cleaned"
    /\ recleaned' = clean_col_name(cleaned)
    /\ pc' = "recleaned"
    /\ UNCHANGED <<col_name, folded, upper_name, cleaned,
                   raw_columns, columns, raw_frame, frame, error>>
    /\ UNCHANGED page_vars

NextClean == Normalize \/ Renormalize

SpecClean == InitClean /\ [][NextClean]_vars

----------------------------------------------------------------------------
(* The duplicate-renaming loop, lines 41-44 *)

Digits == <<"0","1","2","3","4","5","6","7","8","9">>

\* str(i) for an integer i >= 0
RECURSIVE Str(_)
Str(i) == IF i < 10 THEN <<Digits[i + 1]>> ELSE Str(i \div 10) \o <<Digits[(i % 10) + 1]>>

\* the positions of cols that hold v, in increasing order (cols[cols == v].index)
RECURSIVE PositionsFrom(_, _, _)
PositionsFrom(cols, v, p) ==
    IF p > Len(cols) THEN <<>>
    ELSE (IF cols[p] = v THEN <<p>> ELSE <<>>) \o PositionsFrom(cols, v, p + 1)

Positions(cols, v) == PositionsFrom(cols, v, 1)

\* Series.duplicated(): position p repeats an earlier position
Duplicated(cols, p) == \E q \in 1..(p - 1) : cols[q] = cols[p]

\* Series.unique(): the first occurrence of each value, in order
RECURSIVE Unique(_)
Unique(s) ==
    IF s = <<>> THEN <<>>
    ELSE LET rest == Unique(SubSeq(s, 1, Len(s) - 1))
             last == s[Len(s)]
         IN  IF \E i \in 1..Len(rest) : rest[i] = last THEN rest ELSE Append(rest, last)

\* cols[cols.duplicated()].unique(), evaluated once, before the loop starts
RECURSIVE DuplicatedFrom(_, _)
DuplicatedFrom(cols, p) ==
    IF p > Len(cols) THEN <<>>
    ELSE (IF Duplicated(cols, p) THEN <<cols[p]>> ELSE <<>>) \o DuplicatedFrom(cols, p + 1)

DuplicatedValues(cols) == Unique(DuplicatedFrom(cols, 1))

\* the position of x in the sequence s of distinct values
IndexOf(s, x) == CHOOSE i \in 1..Len(s) : s[i] = x

\* line 43, one pass of the loop body: the positions that hold dup now, in
\* order, get dup, dup_1, dup_2, ...
RenameOccurrences(cols, dup) ==
    LET idx == Positions(cols, dup)
    IN  [p \in 1..Len(cols) |->
            IF cols[p] = dup
            THEN LET i == IndexOf(idx, p) - 1
                 IN  IF i # 0 THEN dup \o <<"_">> \o Str(i) ELSE dup
            ELSE cols[p]]

\* lines 42-43: the loop over the values found duplicated at the start, each
\* pass reading the names the passes before it have written
RECURSIVE RenameLoop(_, _)
RenameLoop(cols, dups) ==
    IF dups = <<>> THEN cols
    ELSE RenameLoop(RenameOccurrences(cols, Head(dups)), Tail(dups))

\* lines 41-44
RenameDuplicates(cols) == RenameLoop(cols, DuplicatedValues(cols))

----------------------------------------------------------------------------
(* Header rows: pd.read_csv returns pairwise distinct labels (it renames a  *)
(* repeated header itself), so a header row is a sequence of distinct raw   *)
(* labels.                                                                   *)

HeaderLabels ==
    { <<"R","a","t","e">>, <<"R","A","T","E">>,
      <<"R","a","t","e","_","1">>, <<"R","A","T","E","_","1">>,
      <<"2","0","2","5"," ","0","1"," ","A">>, <<"2","0","2","5","_","0","1","_","A">> }

Distinct(s) == \A i, j \in 1..Len(s) : i # j => s[i] # s[j]

HeaderRows(labels, n) ==
    UNION { { h \in [1..k -> labels] : Distinct(h) } : k \in 1..n }

InitResolve ==
    /\ pc = "read"
    /\ raw_columns \in HeaderRows(HeaderLabels, MaxHeaders)
    /\ columns = raw_columns
    /\ raw_frame = [i \in 1..Len(raw_columns) |-> <<>>]
    /\ frame = raw_frame
    /\ error = NoError
    /\ col_name = <<>>
    /\ folded = <<>>
    /\ upper_name = <<>>
    /\ cleaned = <<>>
    /\ recleaned = <<>>
    /\ PageIdle

\* line 38
CleanColumns ==
    /\ pc = "read"
    /\ columns' = [i \in 1..Len(columns) |-> clean_col_name(columns[i])]
    /\ pc' = "cleaned_columns"
    /\ UNCHANGED <<col_name, folded, upper_name, cleaned, recleaned,
                   raw_columns, raw_frame, frame, error>>
    /\ UNCHANGED page_vars

\* lines 41-44
ResolveDuplicates ==
    /\ pc = "cleaned_columns"
    /\ columns' = RenameDuplicates(columns)
    /\ pc' = "resolved"
    /\ UNCHANGED <<col_name, folded, upper_name, cleaned, recleaned,
                   raw_columns, raw_frame, frame, error>>
    /\ UNCHANGED page_vars

NextResolve == CleanColumns \/ ResolveDuplicates

SpecResolve == InitResolve /\ [][NextResolve]_vars

----------------------------------------------------------------------------
(* Cells and columns of the DataFrame.  A number n stands for n / 100, so   *)
(* that 350.50 is a value; NaN is pandas' missing value.  A column is its   *)
(* dtype ("object" for text, "numeric" for int64 and float64) and cells.    *)

Num(n) == [kind |-> "num", num |-> n, text |-> <<>>]

NaN == [kind |-> "nan", num |-> 0, text |-> <<>>]

Text(s) == [kind |-> "str", num |-> 0, text |-> s]

\* what float() raises ValueError on
Unparseable == [kind |-> "err", num |-> 0, text |-> <<>>]

IsDigits(s) == s # <<>> /\ \A i \in 1..Len(s) : \E d \in 1..10 : Digits[d] = s[i]

\* int(s) for a string of digits
RECURSIVE NatOf(_)
NatOf(s) ==
    IF s = <<>> THEN 0
    ELSE 10 * NatOf(SubSeq(s, 1, Len(s) - 1)) + (IndexOf(Digits, s[Len(s)]) - 1)

\* float(s) on the cell texts of this model: "nan", digits, and digits with
\* one or two decimals; anything else raises ValueError
ParseFloat(s) ==
    IF s = <<"n","a","n">> THEN NaN
    ELSE IF IsDigits(s) THEN Num(100 * NatOf(s))
    ELSE IF \E d \in 1..Len(s) :
              /\ s[d] = "."
              /\ IsDigits(SubSeq(s, 1, d - 1))
              /\ IsDigits(SubSeq(s, d + 1, Len(s)))
              /\ Len(s) - d <= 2
         THEN LET d    == CHOOSE k \in 1..Len(s) : s[k] = "."
                  frac == SubSeq(s, d + 1, Len(s))
              IN  Num(100 * NatOf(SubSeq(s, 1, d - 1))
                        + (IF Len(frac) = 1 THEN 10 * NatOf(frac) ELSE NatOf(frac)))
    ELSE Unparseable

\* line 73 on one cell of an object column: astype(str), the two
\* str.replace calls, replace('', '0'), astype(float)
StrictCell(c) ==
    LET s0 == IF c.kind = "nan" THEN <<"n","a","n">> ELSE c.text
        s1 == Replace(s0, <<",">>, <<>>)
        s2 == Replace(s1, <<" ">>, <<>>)
        s3 == IF s2 = <<>> THEN <<"0">> ELSE s2
    IN  ParseFloat(s3)

\* line 87 on one cell: pd.to_numeric(errors='coerce'), then fillna(0)
LenientCell(c) ==
    LET v == IF c.kind = "str" THEN ParseFloat(c.text) ELSE c
    IN  IF v.kind = "num" THEN v ELSE Num(0)

\* a + b on two cells of numeric columns
AddCells(a, b) == IF a.kind = "num" /\ b.kind = "num" THEN Num(a.num + b.num) ELSE NaN

----------------------------------------------------------------------------
(* The financial allow-list, lines 47-64 *)

BUSINESS_ALLOCATION == <<"B","U","S","I","N","E","S","S","_","A","L","L","O","C","A","T","I","O","N">>
QE_FORECAST_VS_QE_PLAN == <<"Q","E","_","F","O","R","E","C","A","S","T","_","V","S","_","Q","E","_","P","L","A","N">>
FORECAST_VS_BA == <<"F","O","R","E","C","A","S","T","_","V","S","_","B","A">>
YE_RUN == <<"Y","E","_","R","U","N">>
RATE == <<"R","A","T","E">>
QE_RUN == <<"Q","E","_","R","U","N">>
RATE_1 == <<"R","A","T","E","_","1">>
QE_RUN_RATE_0 == <<"Q","E","_","R","U","N","_","R","A","T","E","_","0">>

Prefix2025 == <<"2","0","2","5","_">>

\* '01' .. '12'
MonthTag(m) == IF m < 10 THEN <<"0">> \o Str(m) ELSE Str(m)

\* '2025_<mm>_<suffix>'
Monthly(m, suffix) == Prefix2025 \o MonthTag(m) \o <<"_">> \o suffix

\* lines 58-59: every entry but the one of month 09 has a double underscore
MonthlyActualDuplicate(m) ==
    IF m = 9 THEN Monthly(m, <<"A","_","1">>)
    ELSE Prefix2025 \o MonthTag(m) \o <<"_","_","A","_","1">>

financial_cols ==
    << ALL_PRIOR_YEARS_ACTUALS, BUSINESS_ALLOCATION, CURRENT_EAC,
       QE_FORECAST_VS_QE_PLAN, FORECAST_VS_BA,
       YE_RUN, RATE, QE_RUN, RATE_1, QE_RUN_RATE_0 >>
    \o [m \in 1..12 |-> Monthly(m, <<"A">>)]
    \o [m \in 1..12 |-> Monthly(m, <<"F">>)]
    \o [m \in 1..12 |-> Monthly(m, <<"C","P">>)]
    \o [m \in 1..12 |-> MonthlyActualDuplicate(m)]
    \o [m \in 1..12 |-> Monthly(m, <<"F","_","1">>)]
    \o [m \in 1..12 |-> Monthly(m, <<"C","P","_","1">>)]

Range(s) == { s[i] : i \in 1..Len(s) }

\* name is an entry of financial_cols
InFinancialCols(name) == name \in Range(financial_cols)

\* every column of the table, whether the allow-list has it or not
all_cols_present(cols) == Unique(cols)

\* line 67
financial_cols_present(cols) ==
    SelectSeq(financial_cols, LAMBDA c : c \in Range(cols))

----------------------------------------------------------------------------
(* Coercion and totals, lines 69-95 *)

\* lines 70-75: the strict pass over the allow-listed columns present, in
\* allow-list order.  df[col] of a name two columns share is a DataFrame,
\* which has no dtype attribute; float() of an unparseable cell raises.
\* lines 70-75 with the conversion of line 73 made lenient, as line 75 is:
\* a cell that does not parse becomes NaN and nothing is raised
RECURSIVE StrictPassCoercingErrors(_, _, _)
StrictPassCoercingErrors(cols, fr, todo) ==
    IF todo = <<>> THEN [frame |-> fr, error |-> NoError]
    ELSE LET name == Head(todo)
             idx  == Positions(cols, name)
         IN  IF Len(idx) > 1
             THEN [frame |-> fr, error |-> Raised("AttributeError", name)]
             ELSE LET i   == idx[1]
                      new == [r \in 1..Len(fr[i].cells) |->
                                 IF StrictCell(fr[i].cells[r]) = Unparseable
                                 THEN NaN
                                 ELSE StrictCell(fr[i].cells[r])]
                  IN  IF fr[i].dtype = "object"
                      THEN StrictPassCoercingErrors(cols,
                               [fr EXCEPT ![i] = [dtype |-> "numeric", cells |-> new]],
                               Tail(todo))
                      ELSE StrictPassCoercingErrors(cols, fr, Tail(todo))

RECURSIVE StrictPass(_, _, _)
StrictPass(cols, fr, todo) ==
    IF todo = <<>> THEN [frame |-> fr, error |-> NoError]
    ELSE LET name == Head(todo)
             idx  == Positions(cols, name)
         IN  IF Len(idx) > 1
             THEN [frame |-> fr, error |-> Raised("AttributeError", name)]
             ELSE LET i   == idx[1]
                      new == [r \in 1..Len(fr[i].cells) |-> StrictCell(fr[i].cells[r])]
                  IN  IF fr[i].dtype = "object"
                      THEN IF \E r \in 1..Len(new) : new[r] = Unparseable
                           THEN [frame |-> fr, error |-> Raised("ValueError", name)]
                           ELSE StrictPass(cols,
                                    [fr EXCEPT ![i] = [dtype |-> "numeric", cells |-> new]],
                                    Tail(todo))
                      ELSE StrictPass(cols, fr, Tail(todo))

\* lines 79-81 with the test of line 80 used for the actuals as well
monthly_cols_forecast_suffix(cols, suffix) ==
    SelectSeq(cols, LAMBDA c : StartsWith(c, Prefix2025) /\ EndsWith(c, <<"_","F">>))

\* lines 79-81: the columns whose name starts with 2025_ and ends with
\* the suffix, in column order
monthly_cols(cols, suffix) ==
    SelectSeq(cols, LAMBDA c : StartsWith(c, Prefix2025) /\ EndsWith(c, suffix))

SuffixA == <<"_","A">>
SuffixF == <<"_","F">>
SuffixCP == <<"_","C","P">>

\* lines 84-87: the lenient pass over the three monthly lists (a name is
\* in cols once here: two columns sharing it would make df[col] a
\* DataFrame, which pd.to_numeric rejects)
RECURSIVE LenientPass(_, _, _)
LenientPass(cols, fr, todo) ==
    IF todo = <<>> THEN [frame |-> fr, error |-> NoError]
    ELSE LET name == Head(todo)
             idx  == Positions(cols, name)
         IN  IF Len(idx) > 1
             THEN [frame |-> fr, error |-> Raised("TypeError", name)]
             ELSE LET i   == idx[1]
                      new == [r \in 1..Len(fr[i].cells) |-> LenientCell(fr[i].cells[r])]
                  IN  LenientPass(cols,
                          [fr EXCEPT ![i] = [dtype |-> "numeric", cells |-> new]],
                          Tail(todo))

\* the number of rows of the table
NumRows(fr) == IF fr = <<>> THEN 0 ELSE Len(fr[1].cells)

\* df[name] for a name one column has
Column(cols, fr, name) == fr[IndexOf(cols, name)]

\* DataFrame.sum(axis=1) over the named columns: per row, NaN skipped
RECURSIVE SumCells(_, _, _, _)
SumCells(cols, fr, names, r) ==
    IF names = <<>> THEN 0
    ELSE LET c == Column(cols, fr, Head(names)).cells[r]
         IN  (IF c.kind = "num" THEN c.num ELSE 0) + SumCells(cols, fr, Tail(names), r)

\* lines 90-92, right-hand side: the row sums of the listed columns, or
\* the scalar 0 when the list is empty
total_column(cols, fr, names) ==
    [dtype |-> "numeric",
     cells |-> [r \in 1..NumRows(fr) |->
                   IF names # <<>> THEN Num(SumCells(cols, fr, names, r)) ELSE Num(0)]]

\* df[name] = col: an existing column of that name is replaced in place,
\* otherwise the column is appended
SetColumnNames(cols, name) == IF name \in Range(cols) THEN cols ELSE Append(cols, name)

SetColumnFrame(cols, fr, name, col) ==
    IF name \in Range(cols)
    THEN [i \in 1..Len(fr) |-> IF cols[i] = name THEN col ELSE fr[i]]
    ELSE Append(fr, col)

TOTAL_2025_ACTUALS == <<"T","O","T","A","L","_","2","0","2","5","_","A","C","T","U","A","L","S">>
TOTAL_2025_FORECASTS == <<"T","O","T","A","L","_","2","0","2","5","_","F","O","R","E","C","A","S","T","S">>
TOTAL_2025_CAPITAL_PLAN == <<"T","O","T","A","L","_","2","0","2","5","_","C","A","P","I","T","A","L","_","P","L","A","N">>
TOTAL_ACTUALS_TO_DATE == <<"T","O","T","A","L","_","A","C","T","U","A","L","S","_","T","O","_","D","A","T","E">>

\* line 95 with the forecasts' total added instead of the actuals'
total_actuals_to_date_forecasts(cols, fr) ==
    LET prior == Column(cols, fr, ALL_PRIOR_YEARS_ACTUALS)
        total == Column(cols, fr, TOTAL_2025_FORECASTS)
    IN  [dtype |-> "numeric",
         cells |-> [r \in 1..NumRows(fr) |-> AddCells(prior.cells[r], total.cells[r])]]

\* line 95, right-hand side
total_actuals_to_date(cols, fr) ==
    LET prior == Column(cols, fr, ALL_PRIOR_YEARS_ACTUALS)
        total == Column(cols, fr, TOTAL_2025_ACTUALS)
    IN  [dtype |-> "numeric",
         cells |-> [r \in 1..NumRows(fr) |-> AddCells(prior.cells[r], total.cells[r])]]

----------------------------------------------------------------------------
(* load_data on an uploaded table *)

\* the labels of the uploaded file's header row: two that normalise to
\* 2025_01_A, a monthly actual the allow-list does not have, a forecast, a
\* capital plan, the prior years' actuals and a label that normalises to
\* the name of a derived column
UploadLabels ==
    { <<"2","0","2","5"," ","0","1"," ","A">>,
      <<"2","0","2","5","_","0","1","_","A">>,
      <<"2","0","2","5","_","1","3","_","A">>,
      <<"2","0","2","5","_","0","1","_","F">>,
      <<"2","0","2","5","_","0","1","_","C","P">>,
      <<"A","l","l"," ","P","r","i","o","r"," ","Y","e","a","r","s"," ","A">>,
      <<"T","o","t","a","l"," ","2","0","2","5"," ","A","c","t","u","a","l","s">> }

\* the columns pd.read_csv returns here, of four data rows each: numbers
\* with a missing cell; text with an unparseable cell and a missing one;
\* text that parses once commas and spaces are gone, with a blank cell and
\* a missing one
UploadColumns ==
    { [dtype |-> "numeric", cells |-> <<Num(10000), Num(20000), NaN, Num(35000)>>],
      [dtype |-> "object",
       cells |-> <<Text(<<"1","0","0">>), Text(<<"2","0","0">>),
                   Text(<<"b","a","d">>), NaN>>],
      [dtype |-> "object",
       cells |-> <<Text(<<"1",",","2","0","0">>), Text(<<" ">>),
                   Text(<<"3","5","0",".","5","0">>), NaN>>] }

Init ==
    /\ pc = "read"
    /\ raw_columns \in HeaderRows(UploadLabels, MaxColumns)
    /\ columns = raw_columns
    /\ raw_frame \in [1..Len(raw_columns) -> UploadColumns]
    /\ frame = raw_frame
    /\ error = NoError
    /\ col_name = <<>>
    /\ folded = <<>>
    /\ upper_name = <<>>
    /\ cleaned = <<>>
    /\ recleaned = <<>>
    /\ PageIdle

\* lines 67-75
CoerceFinancial ==
    /\ pc = "resolved"
    /\ LET out == StrictPass(columns, frame, financial_cols_present(columns))
       IN  /\ frame' = out.frame
           /\ error' = out.error
           /\ pc' = IF out.error = NoError THEN "coerced" ELSE "raised"
    /\ UNCHANGED <<col_name, folded, upper_name, cleaned, recleaned,
                   raw_columns, columns, raw_frame>>
    /\ UNCHANGED page_vars

\* lines 79-87
CoerceMonthly ==
    /\ pc = "coerced"
    /\ LET out == LenientPass(columns, frame,
                      monthly_cols(columns, SuffixA) \o monthly_cols(columns, SuffixF)
                          \o monthly_cols(columns, SuffixCP))
       IN  /\ frame' = out.frame
           /\ error' = out.error
           /\ pc' = IF out.error = NoError THEN "monthly_coerced" ELSE "raised"
    /\ UNCHANGED <<col_name, folded, upper_name, cleaned, recleaned,
                   raw_columns, columns, raw_frame>>
    /\ UNCHANGED page_vars

\* lines 90-92: the three totals, assigned one after the other
ComputeTotals ==
    /\ pc = "monthly_coerced"
    /\ LET actuals   == monthly_cols(columns, SuffixA)
           forecasts == monthly_cols(columns, SuffixF)
           plans     == monthly_cols(columns, SuffixCP)
           cols1 == SetColumnNames(columns, TOTAL_2025_ACTUALS)
           fr1   == SetColumnFrame(columns, frame, TOTAL_2025_ACTUALS,
                                   total_column(columns, frame, actuals))
           cols2 == SetColumnNames(cols1, TOTAL_2025_FORECASTS)
           fr2   == SetColumnFrame(cols1, fr1, TOTAL_2025_FORECASTS,
                                   total_column(cols1, fr1, forecasts))
           cols3 == SetColumnNames(cols2, TOTAL_2025_CAPITAL_PLAN)
           fr3   == SetColumnFrame(cols2, fr2, TOTAL_2025_CAPITAL_PLAN,
                                   total_column(cols2, fr2, plans))
       IN  /\ columns' = cols3
           /\ frame' = fr3
    /\ pc' = "totalled"
    /\ UNCHANGED <<col_name, folded, upper_name, cleaned, recleaned,
                   raw_columns, raw_frame, error>>
    /\ UNCHANGED page_vars

\* lines 95-97 with a missing ALL_PRIOR_YEARS_ACTUALS read as 0
ComputeTotalToDateDefaultingPrior ==
    /\ pc = "totalled"
    /\ columns' = SetColumnNames(columns, TOTAL_ACTUALS_TO_DATE)
    /\ frame' = SetColumnFrame(columns, frame, TOTAL_ACTUALS_TO_DATE,
                     IF ALL_PRIOR_YEARS_ACTUALS \in Range(columns)
                     THEN total_actuals_to_date(columns, frame)
                     ELSE Column(columns, frame, TOTAL_2025_ACTUALS))
    /\ error' = error
    /\ pc' = "returned"
    /\ UNCHANGED <<col_name, folded, upper_name, cleaned, recleaned,
                   raw_columns, raw_frame>>
    /\ UNCHANGED page_vars

\* lines 95-97: df['ALL_PRIOR_YEARS_ACTUALS'] of a table without that
\* column raises KeyError; otherwise the sum is assigned and df returned
ComputeTotalToDate ==
    /\ pc = "totalled"
    /\ IF ALL_PRIOR_YEARS_ACTUALS \in Range(columns)
       THEN /\ columns' = SetColumnNames(columns, TOTAL_ACTUALS_TO_DATE)
            /\ frame' = SetColumnFrame(columns, frame, TOTAL_ACTUALS_TO_DATE,
                                       total_actuals_to_date(columns, frame))
            /\ error' = error
            /\ pc' = "returned"
       ELSE /\ error' = Raised("KeyError", ALL_PRIOR_YEARS_ACTUALS)
            /\ pc' = "raised"
            /\ UNCHANGED <<columns, frame>>
    /\ UNCHANGED <<col_name, folded, upper_name, cleaned, recleaned,
                   raw_columns, raw_frame>>
    /\ UNCHANGED page_vars

Next ==
    \/ CleanColumns
    \/ ResolveDuplicates
    \/ CoerceFinancial
    \/ CoerceMonthly
    \/ ComputeTotals
    \/ ComputeTotalToDate

Spec == Init /\ [][Next]_vars

\* the labels of an uploaded file with financial columns that are not
\* monthly ones: a business allocation, the prior years' actuals, one
\* monthly actual and a column outside the allow-list
CoerceLabels ==
    { <<"B","u","s","i","n","e","s","s"," ","A","l","l","o","c","a","t","i","o","n">>,
      <<"A","l","l"," ","P","r","i","o","r"," ","Y","e","a","r","s"," ","A">>,
      <<"2","0","2","5","_","0","1","_","A">>,
      <<"N","a","m","e">> }

InitCoerce ==
    /\ pc = "read"
    /\ raw_columns \in HeaderRows(CoerceLabels, MaxColumns)
    /\ columns = raw_columns
    /\ raw_frame \in [1..Len(raw_columns) -> UploadColumns]
    /\ frame = raw_frame
    /\ error = NoError
    /\ col_name = <<>>
    /\ folded = <<>>
    /\ upper_name = <<>>
    /\ cleaned = <<>>
    /\ recleaned = <<>>
    /\ PageIdle

SpecCoerce == InitCoerce /\ [][Next]_vars

----------------------------------------------------------------------------
(* C1: clean_col_name is idempotent: applied to its own result it returns   *)
(* that result.                                                              *)
C1_Idempotent == pc = "recleaned" => recleaned = cleaned

(* C7, as claimed: line 23 turns each space, '+', '.' and '-' of the trimmed *)
(* label into '_' and nothing else changes, so the folded label is as long   *)
(* as the trimmed one and has '_' exactly where the trimmed one has one of   *)
(* those four characters or '_'.                                             *)
Separators == {" ", "+", ".", "-"}

C7_FoldIsCharacterwise ==
    pc # "label" =>
        LET t == Strip(col_name)
        IN  /\ Len(folded) = Len(t)
            /\ \A i \in 1..Len(t) :
                 folded[i] = IF t[i] \in Separators THEN "_" ELSE t[i]

\* the trimmed label with every '.' dropped and every ' ', '+', '-' turned
\* into '_', character by character
DropDotsAndFold(t) ==
    LET kept == SelectSeq(t, LAMBDA c : c # ".")
    IN  [i \in 1..Len(kept) |-> IF kept[i] \in {" ", "+", "-"} THEN "_" ELSE kept[i]]

\* the length of the run of '_' that s starts with
RECURSIVE LeadingUnderscores(_)
LeadingUnderscores(s) ==
    IF s # <<>> /\ Head(s) = "_" THEN 1 + LeadingUnderscores(Tail(s)) ELSE 0

\* every maximal run of n underscores shortened to (n + 1) \div 2
RECURSIVE HalveRuns(_)
HalveRuns(s) ==
    IF s = <<>> THEN <<>>
    ELSE IF Head(s) = "_"
         THEN LET n == LeadingUnderscores(s)
              IN  [i \in 1..((n + 1) \div 2) |-> "_"]
                      \o HalveRuns(SubSeq(s, n + 1, Len(s)))
         ELSE <<Head(s)>> \o HalveRuns(Tail(s))

(* C7, amended: line 23 drops every '.', turns each space, '+' and '-' of    *)
(* the trimmed label into '_', and then shortens every maximal run of n      *)
(* underscores to (n + 1) \div 2 of them (one left-to-right pass of          *)
(* replace('__', '_')).                                                      *)
C7_FoldDropsDotsAndHalvesRuns ==
    pc # "label" => folded = HalveRuns(DropDotsAndFold(Strip(col_name)))

\* a label with a dot and a run of at least three separators has been folded
C7_Witness ==
    /\ pc = "cleaned"
    /\ Contains(col_name, <<".">>)
    /\ Contains(DropDotsAndFold(Strip(col_name)), <<"_","_","_">>)
    /\ Len(folded) < Len(Strip(col_name)) - 1

\* the five rules of the correction table as the claim states them: the
\* first three replace substrings, the fourth replaces the whole label, the
\* fifth changes nothing
TypoTableAsClaimed(s) ==
    LET s1 == Replace(s, PROJEC_TID, PROJECT_ID)
        s2 == Replace(s1, INI_MATIVE_PROGRAM, INITIATIVE_PROGRAM)
        s3 == Replace(s2, ALL_PRIOR_YEARS_A, ALL_PRIOR_YEARS_ACTUALS)
        s4 == IF Contains(s3, C_URRENT_EAC) THEN CURRENT_EAC ELSE s3
    IN  s4

(* C8: the correction stage equals the table's five rules applied in order   *)
(* to the upper-cased label, the QE_RUN_RATE rule being a no-op.             *)
C8_TypoTable == pc # "label" => cleaned = TypoTableAsClaimed(upper_name)

\* the labels the duplicate-renaming loop was given
NormalizedColumns == [i \in 1..Len(raw_columns) |-> clean_col_name(raw_columns[i])]

(* C2: after normalisation and the duplicate-renaming loop no two columns    *)
(* have the same name.                                                       *)
C2_NamesUnique == pc = "resolved" => Distinct(columns)

(* C3: the loop keeps length and positions and renames by occurrence index:  *)
(* the first occurrence of a value keeps it, its i-th later occurrence       *)
(* becomes value_i.                                                          *)
C3_RenamedByOccurrence ==
    pc = "resolved" =>
        /\ Len(columns) = Len(NormalizedColumns)
        /\ \A p \in 1..Len(columns) :
             LET v == NormalizedColumns[p]
                 i == Cardinality({q \in 1..(p - 1) : NormalizedColumns[q] = v})
             IN  columns[p] = IF i = 0 THEN v ELSE v \o <<"_">> \o Str(i)

----------------------------------------------------------------------------
(* The returned table, read by column name and row *)

Rows == 1..NumRows(frame)

\* the cell of the named column in row r
CellOf(name, r) == frame[IndexOf(columns, name)].cells[r]

\* a cell's number, 0 for a cell that holds none
CellNum(c) == IF c.kind = "num" THEN c.num ELSE 0

\* the name starts with 2025_ and ends with the suffix
MonthlyName(name, suffix) ==
    /\ Len(name) >= Len(suffix) + 5
    /\ SubSeq(name, 1, 5) = <<"2","0","2","5","_">>
    /\ SubSeq(name, Len(name) - Len(suffix) + 1, Len(name)) = suffix

\* the name is a monthly name of that suffix followed by _1, _2, ...
SuffixedMonthlyName(name, suffix) ==
    \E i \in 1..MaxColumns :
        LET tail == <<"_">> \o Str(i)
        IN  /\ Len(name) > Len(tail)
            /\ SubSeq(name, Len(name) - Len(tail) + 1, Len(name)) = tail
            /\ MonthlyName(SubSeq(name, 1, Len(name) - Len(tail)), suffix)

\* the sum, in row r, of the first n columns whose position is in the set
RECURSIVE RowSum(_, _, _)
RowSum(positions, r, n) ==
    IF n = 0 THEN 0
    ELSE RowSum(positions, r, n - 1)
            + (IF n \in positions THEN CellNum(frame[n].cells[r]) ELSE 0)

MonthlyPositions(suffix) == {i \in 1..Len(columns) : MonthlyName(columns[i], suffix)}

SuffixedPositions(suffix) ==
    {i \in 1..Len(columns) : SuffixedMonthlyName(columns[i], suffix)}

(* C4: the columns the duplicate-renaming loop suffixed (2025_01_A_1) are    *)
(* summed into the yearly totals together with the monthly columns.          *)
C4_SuffixedDuplicatesSummed ==
    pc = "returned" =>
        \A r \in Rows :
            /\ CellOf(TOTAL_2025_ACTUALS, r) =
                 Num(RowSum(MonthlyPositions(<<"_","A">>) \cup SuffixedPositions(<<"_","A">>),
                            r, Len(columns)))
            /\ CellOf(TOTAL_2025_FORECASTS, r) =
                 Num(RowSum(MonthlyPositions(<<"_","F">>) \cup SuffixedPositions(<<"_","F">>),
                            r, Len(columns)))
            /\ CellOf(TOTAL_2025_CAPITAL_PLAN, r) =
                 Num(RowSum(MonthlyPositions(<<"_","C","P">>)
                                \cup SuffixedPositions(<<"_","C","P">>),
                            r, Len(columns)))

MonthlyPattern(name) ==
    \/ MonthlyName(name, <<"_","A">>)
    \/ MonthlyName(name, <<"_","F">>)
    \/ MonthlyName(name, <<"_","C","P">>)

(* C5: load_data never fails on the cells of a column with a monthly name:   *)
(* no ValueError is raised for such a column, and in the returned table each *)
(* of its cells is a number, 0 where the cell read was unparseable or        *)
(* missing.                                                                  *)
C5_MonthlyCellsNeverFail ==
    /\ pc = "raised" /\ error.type = "ValueError" => ~MonthlyPattern(error.column)
    /\ pc = "returned" =>
         \A i \in 1..Len(raw_columns) :
            MonthlyPattern(columns[i]) =>
                \A r \in Rows :
                    /\ frame[i].cells[r].kind = "num"
                    /\ raw_frame[i].cells[r] \in {NaN, Text(<<"b","a","d">>)}
                           => frame[i].cells[r] = Num(0)

(* C6: in every row of the returned table each yearly total is the sum of    *)
(* the row's cells in the columns whose name starts with 2025_ and ends with *)
(* _A (_F, _CP), and 0 when there is no such column.                         *)
C6_TotalsAreRowSums ==
    pc = "returned" =>
        \A r \in Rows :
            /\ CellOf(TOTAL_2025_ACTUALS, r) =
                 Num(RowSum(MonthlyPositions(<<"_","A">>), r, Len(columns)))
            /\ CellOf(TOTAL_2025_FORECASTS, r) =
                 Num(RowSum(MonthlyPositions(<<"_","F">>), r, Len(columns)))
            /\ CellOf(TOTAL_2025_CAPITAL_PLAN, r) =
                 Num(RowSum(MonthlyPositions(<<"_","C","P">>), r, Len(columns)))

\* a table was returned in which two monthly actuals were summed and no
\* forecast or capital plan was present
C6_Witness ==
    /\ pc = "returned"
    /\ Cardinality(MonthlyPositions(<<"_","A">>)) = 2
    /\ MonthlyPositions(<<"_","F">>) = {}
    /\ MonthlyPositions(<<"_","C","P">>) = {}
    /\ CellOf(TOTAL_2025_ACTUALS, 1) = Num(130000)
    /\ CellOf(TOTAL_2025_FORECASTS, 1) = Num(0)
    /\ CellOf(TOTAL_2025_CAPITAL_PLAN, 1) = Num(0)

(* C9, as claimed: the returned table holds, for every uploaded column whose *)
(* final name is not in the allow-list, the cells and the type read from the *)
(* file.                                                                     *)
C9_OutsideAllowListUntouched ==
    pc = "returned" =>
        \A i \in 1..Len(raw_columns) :
            ~InFinancialCols(columns[i]) => frame[i] = raw_frame[i]

DerivedNames ==
    {TOTAL_2025_ACTUALS, TOTAL_2025_FORECASTS, TOTAL_2025_CAPITAL_PLAN,
     TOTAL_ACTUALS_TO_DATE}

(* C9, amended: the returned table holds the cells and the type read from    *)
(* the file for every uploaded column whose final name is not in the         *)
(* allow-list, does not match a monthly pattern (2025_..._A, _F, _CP) and is *)
(* not the name of one of the four derived columns.                          *)
C9_OtherColumnsUntouched ==
    pc = "returned" =>
        \A i \in 1..Len(raw_columns) :
            (/\ ~InFinancialCols(columns[i])
             /\ ~MonthlyPattern(columns[i])
             /\ columns[i] \notin DerivedNames) => frame[i] = raw_frame[i]

\* a table was returned with a text column that is in none of the three
\* groups: the renamed duplicate 2025_01_A_1
C9_Witness ==
    /\ pc = "returned"
    /\ \E i \in 1..Len(raw_columns) :
         /\ columns[i] = <<"2","0","2","5","_","0","1","_","A","_","1">>
         /\ ~InFinancialCols(columns[i])
         /\ raw_frame[i].dtype = "object"
         /\ frame[i].dtype = "object"

(* C10: in every row of the returned table TOTAL_ACTUALS_TO_DATE is          *)
(* ALL_PRIOR_YEARS_ACTUALS plus TOTAL_2025_ACTUALS (missing where the prior  *)
(* years' cell is missing).                                                  *)
C10_TotalToDateIsSum ==
    pc = "returned" =>
        \A r \in Rows :
            LET prior == CellOf(ALL_PRIOR_YEARS_ACTUALS, r)
                total == CellOf(TOTAL_2025_ACTUALS, r)
                sum   == CellOf(TOTAL_ACTUALS_TO_DATE, r)
            IN  /\ total.kind = "num"
                /\ IF prior.kind = "num"
                   THEN sum = Num(prior.num + total.num)
                   ELSE sum = NaN

\* a table was returned in which the 2025 actuals add to the prior years'
C10_Witness ==
    /\ pc = "returned"
    /\ CellOf(ALL_PRIOR_YEARS_ACTUALS, 1) = Num(120000)
    /\ CellOf(TOTAL_2025_ACTUALS, 1) = Num(10000)
    /\ CellOf(TOTAL_ACTUALS_TO_DATE, 1) = Num(130000)
    /\ CellOf(ALL_PRIOR_YEARS_ACTUALS, 4) = NaN
    /\ CellOf(TOTAL_ACTUALS_TO_DATE, 4) = NaN

----------------------------------------------------------------------------
(* The table without the prior years' actuals; the strict coercion *)

\* the column names are final once the duplicates are renamed
NamesResolved == pc \notin {"read", "cleaned_columns"}

PriorMissing == NamesResolved /\ ALL_PRIOR_YEARS_ACTUALS \notin Range(columns)

(* C11, as stated: a table with no ALL_PRIOR_YEARS_ACTUALS column makes      *)
(* load_data end with a missing-field error raised at the aggregation step.  *)
C11_MissingPriorEndsInKeyError ==
    (PriorMissing /\ pc \in {"returned", "raised"}) =>
        /\ pc = "raised"
        /\ error = Raised("KeyError", ALL_PRIOR_YEARS_ACTUALS)

(* C11, amended: a table with no ALL_PRIOR_YEARS_ACTUALS column is never     *)
(* returned, so the field is never defaulted; load_data raises, with         *)
(* KeyError on that name once the three totals are computed, unless the      *)
(* coercion pass has raised before any total was computed.                   *)
C11_MissingPriorNeverReturned ==
    PriorMissing =>
        /\ pc # "returned"
        /\ TOTAL_ACTUALS_TO_DATE \notin Range(columns)
        /\ pc = "raised" =>
              \/ /\ error = Raised("KeyError", ALL_PRIOR_YEARS_ACTUALS)
                 /\ TOTAL_2025_CAPITAL_PLAN \in Range(columns)
              \/ /\ error.type \in {"ValueError", "AttributeError"}
                 /\ InFinancialCols(error.column)
                 /\ Len(columns) = Len(raw_columns)

\* the aggregation step of a table with a coerced business allocation and
\* no prior years' actuals raised KeyError
C11_Witness ==
    /\ pc = "raised"
    /\ error = Raised("KeyError", ALL_PRIOR_YEARS_ACTUALS)
    /\ BUSINESS_ALLOCATION \in Range(columns)
    /\ TOTAL_2025_ACTUALS \in Range(columns)
    /\ ALL_PRIOR_YEARS_ACTUALS \notin Range(columns)

\* the text-typed columns of the allow-list, by position
StrictPositions ==
    { i \in 1..Len(raw_frame) :
        InFinancialCols(columns[i]) /\ raw_frame[i].dtype = "object" }

\* the number the claim gives a text cell: commas and spaces dropped, an
\* empty cell 0, the rest parsed
ClaimedStrictCell(c) ==
    LET s == IF c.kind = "str"
             THEN SelectSeq(c.text, LAMBDA ch : ch \notin {",", " "})
             ELSE <<>>
    IN  IF s = <<>> THEN Num(0) ELSE ParseFloat(s)

(* C12: after the strict coercion every cell of a text-typed allow-listed    *)
(* column holds the number of its text with commas and spaces removed, and   *)
(* 0 where the cell was empty.                                               *)
C12_StrictCoercionParsesCells ==
    pc = "coerced" =>
        \A i \in StrictPositions :
            \A r \in 1..Len(raw_frame[i].cells) :
                frame[i].cells[r] = ClaimedStrictCell(raw_frame[i].cells[r])

\* a text-typed allow-listed column has a cell the strict coercion rejects
HasUnparseableCell ==
    /\ NamesResolved
    /\ \E i \in StrictPositions :
          \E r \in 1..Len(raw_frame[i].cells) :
              /\ raw_frame[i].cells[r].kind = "str"
              /\ ClaimedStrictCell(raw_frame[i].cells[r]) = Unparseable

(* C13: when a cell of a text-typed allow-listed column does not parse,      *)
(* load_data raises: it never gets past the coercion pass, returns no        *)
(* table and adds no derived column.                                         *)
C13_CoercionFailureIsFatal ==
    HasUnparseableCell =>
        /\ pc \in {"resolved", "raised"}
        /\ Len(columns) = Len(raw_columns)
        /\ pc = "raised" => error.type \in {"ValueError", "AttributeError"}

\* the business allocation did not parse after the prior years' actuals
\* had been coerced in load_data's own table: ValueError, nothing returned
C13_Witness ==
    /\ pc = "raised"
    /\ error = Raised("ValueError", BUSINESS_ALLOCATION)
    /\ \E i \in 1..Len(columns) :
          /\ columns[i] = ALL_PRIOR_YEARS_ACTUALS
          /\ raw_frame[i].dtype = "object"
          /\ frame[i].dtype = "numeric"

----------------------------------------------------------------------------
(* One run of the page script (lines 99-555) *)

PORTFOLIO_OBS_LEVEL == <<"P","O","R","T","F","O","L","I","O","_","O","B","S","_","L","E","V","E","L">>
SUB_PORTFOLIO_OBS_LEVEL == <<"S","U","B","_","P","O","R","T","F","O","L","I","O","_","O","B","S","_","L","E","V","E","L">>
MASTER_PROJECT_ID == <<"M","A","S","T","E","R","_","P","R","O","J","E","C","T","_","I","D">>
PROJECT_NAME == <<"P","R","O","J","E","C","T","_","N","A","M","E">>
PROJECT_MANAGER == <<"P","R","O","J","E","C","T","_","M","A","N","A","G","E","R">>
BRS_CLASSIFICATION == <<"B","R","S","_","C","L","A","S","S","I","F","I","C","A","T","I","O","N">>

\* the header labels of an uploaded project file (the prior years' label
\* is the one line 30 completes to ALL_PRIOR_YEARS_ACTUALS)
LabelPortfolio == <<"P","o","r","t","f","o","l","i","o"," ","O","B","S"," ","L","e","v","e","l">>
LabelSubPortfolio == <<"S","u","b"," ","P","o","r","t","f","o","l","i","o"," ","O","B","S"," ","L","e","v","e","l">>
LabelProjectId == <<"M","a","s","t","e","r"," ","P","r","o","j","e","c","t"," ","I","D">>
LabelProjectName == <<"P","r","o","j","e","c","t"," ","N","a","m","e">>
LabelManager == <<"P","r","o","j","e","c","t"," ","M","a","n","a","g","e","r">>
LabelBrs == <<"B","R","S"," ","C","l","a","s","s","i","f","i","c","a","t","i","o","n">>
LabelAllocation == <<"B","u","s","i","n","e","s","s"," ","A","l","l","o","c","a","t","i","o","n">>
LabelEac == <<"C","u","r","r","e","n","t"," ","E","A","C">>
LabelPrior == <<"A","l","l"," ","P","r","i","o","r"," ","Y","e","a","r","s"," ","A">>
LabelQe == <<"Q","E"," ","F","o","r","e","c","a","s","t"," ","v","s"," ","Q","E"," ","P","l","a","n">>
LabelBa == <<"F","o","r","e","c","a","s","t"," ","v","s"," ","B","A">>
LabelJanA == <<"2","0","2","5","_","0","1","_","A">>
LabelJanF == <<"2","0","2","5","_","0","1","_","F">>
LabelJanCP == <<"2","0","2","5","_","0","1","_","C","P">>

\* the labels every section of the page needs, in file order
BaseHeader ==
    <<LabelPortfolio, LabelSubPortfolio, LabelProjectId, LabelProjectName,
      LabelManager, LabelBrs, LabelAllocation, LabelEac, LabelPrior,
      LabelQe, LabelBa>>

Without(header, label) == SelectSeq(header, LAMBDA l : l # label)

\* the header rows of the uploaded files: with no monthly column, with one,
\* with an actual, a forecast and a capital plan, and with a column missing
\* that the project table, the sidebar or the metrics read
PageHeaders ==
    { BaseHeader,
      BaseHeader \o <<LabelJanA>>,
      BaseHeader \o <<LabelJanA, LabelJanF, LabelJanCP>>,
      Without(BaseHeader, LabelBa) \o <<LabelJanA>>,
      Without(BaseHeader, LabelBrs),
      Without(BaseHeader, LabelEac) }

MaxRows == 2  \* an uploaded project file has at most this many data rows

\* the text cells of a project's row: portfolio, sub-portfolio, manager,
\* classification and name, any of which the file may leave empty
ProjectRows ==
    { [portfolio |-> Text(<<"P","1">>), sub_portfolio |-> Text(<<"S","1">>),
       manager |-> Text(<<"M","1">>), brs |-> Text(<<"B","1">>),
       name |-> Text(<<"N","1">>)],
      [portfolio |-> Text(<<"P","1">>), sub_portfolio |-> Text(<<"S","2">>),
       manager |-> Text(<<"M","2">>), brs |-> NaN,
       name |-> Text(<<"N","2">>)],
      [portfolio |-> NaN, sub_portfolio |-> Text(<<"S","1">>),
       manager |-> Text(<<"M","2">>), brs |-> Text(<<"B","1">>),
       name |-> Text(<<"N","1">>)] }

ProjectTables == UNION { [1..k -> ProjectRows] : k \in 1..MaxRows }

\* the column pd.read_csv returns for a label of a project file: text
\* (float64 when every cell is empty) or numbers
PageColumn(label, rows) ==
    LET text(cells) ==
            [dtype |-> IF \A r \in 1..Len(cells) : cells[r] = NaN
                       THEN "numeric" ELSE "object",
             cells |-> cells]
    IN  IF label = LabelPortfolio
        THEN text([r \in 1..Len(rows) |-> rows[r].portfolio])
        ELSE IF label = LabelSubPortfolio
        THEN text([r \in 1..Len(rows) |-> rows[r].sub_portfolio])
        ELSE IF label = LabelManager
        THEN text([r \in 1..Len(rows) |-> rows[r].manager])
        ELSE IF label = LabelBrs
        THEN text([r \in 1..Len(rows) |-> rows[r].brs])
        ELSE IF label = LabelProjectName
        THEN text([r \in 1..Len(rows) |-> rows[r].name])
        ELSE [dtype |-> "numeric", cells |-> [r \in 1..Len(rows) |-> Num(10000 * r)]]

PageFrame(header, rows) == [i \in 1..Len(header) |-> PageColumn(header[i], rows)]

\* line 106: no file, a file pd.read_csv cannot parse, or a project file
InitPage ==
    /\ pc = "script_start"
    /\ uploaded_file \in {"none", "unreadable", "csv"}
    /\ IF uploaded_file = "csv"
       THEN /\ raw_columns \in PageHeaders
            /\ \E rows \in ProjectTables : raw_frame = PageFrame(raw_columns, rows)
       ELSE /\ raw_columns = <<>>
            /\ raw_frame = <<>>
    /\ columns = <<>>
    /\ frame = <<>>
    /\ error = NoError
    /\ col_name = <<>>
    /\ folded = <<>>
    /\ upper_name = <<>>
    /\ cleaned = <<>>
    /\ recleaned = <<>>
    /\ namespace = Unbound
    /\ rendered = {}
    /\ selection = NoSelection
    /\ filtered_df = <<>>

clean_vars == <<col_name, folded, upper_name, cleaned, recleaned>>

\* lines 106-109 and 554-555
StartScript ==
    /\ pc = "script_start"
    /\ IF uploaded_file = "none"
       THEN /\ rendered' = rendered \cup {"info_upload"}
            /\ pc' = "script_done"
       ELSE /\ rendered' = rendered
            /\ pc' = "load_data"
    /\ UNCHANGED <<clean_vars, raw_columns, columns, raw_frame, frame, error,
                   uploaded_file, namespace, selection, filtered_df>>

\* lines 14-18 with the return of line 18 missing: the run goes on to the
\* normalisation with the empty table
ReadCsvFallingThrough ==
    /\ pc = "load_data"
    /\ rendered' = IF uploaded_file = "unreadable"
                   THEN rendered \cup {"error_loading"} ELSE rendered
    /\ columns' = raw_columns
    /\ frame' = raw_frame
    /\ pc' = "read"
    /\ UNCHANGED <<clean_vars, raw_columns, raw_frame, error,
                   uploaded_file, namespace, selection, filtered_df>>

\* lines 14-18: pd.read_csv gives the table, or raises and load_data
\* reports the error and returns pd.DataFrame()
ReadCsv ==
    /\ pc = "load_data"
    /\ IF uploaded_file = "unreadable"
       THEN /\ rendered' = rendered \cup {"error_loading"}
            /\ columns' = <<>>
            /\ frame' = <<>>
            /\ pc' = "returned"
       ELSE /\ rendered' = rendered
            /\ columns' = raw_columns
            /\ frame' = raw_frame
            /\ pc' = "read"
    /\ UNCHANGED <<clean_vars, raw_columns, raw_frame, error,
                   uploaded_file, namespace, selection, filtered_df>>

\* DataFrame.empty: no column or no row
Empty(cols, fr) == cols = <<>> \/ NumRows(fr) = 0

\* lines 111 and 551-552
CheckEmpty ==
    /\ pc = "returned"
    /\ IF Empty(columns, frame)
       THEN /\ rendered' = rendered \cup {"warning_valid_data"}
            /\ pc' = "script_done"
       ELSE /\ rendered' = rendered
            /\ pc' = "sidebar"
    /\ UNCHANGED <<clean_vars, raw_columns, columns, raw_frame, frame, error,
                   uploaded_file, namespace, selection, filtered_df>>

\* df[name].dropna().unique().tolist() behind the first option
Options(cols, fr, rows, name, first) ==
    LET cells == [k \in 1..Len(rows) |-> Column(cols, fr, name).cells[rows[k]]]
        texts == SelectSeq(cells, LAMBDA c : c.kind = "str")
    IN  <<first>> \o Unique([k \in 1..Len(texts) |-> texts[k].text])

\* the index labels of df's rows
AllRows(fr) == [r \in 1..NumRows(fr) |-> r]

\* the names of a list that the table has no column for, in list order
Missing(cols, names) == SelectSeq(names, LAMBDA n : n \notin Range(cols))

FilterColumns ==
    <<PORTFOLIO_OBS_LEVEL, SUB_PORTFOLIO_OBS_LEVEL, PROJECT_MANAGER, BRS_CLASSIFICATION>>

FilterBoxes ==
    <<"select_portfolio", "select_sub_portfolio", "select_manager",
      "select_brs_classification">>

\* lines 113-125: each select box is built from its column and read in
\* turn; a column the table does not have raises KeyError there
SelectFilters ==
    /\ pc = "sidebar"
    /\ LET missing == Missing(columns, FilterColumns)
       IN  IF missing # <<>>
           THEN /\ rendered' = rendered \cup {"sidebar_header"}
                        \cup { FilterBoxes[j] : j \in 1..(IndexOf(FilterColumns, Head(missing)) - 1) }
                /\ error' = Raised("KeyError", Head(missing))
                /\ selection' = selection
                /\ pc' = "script_raised"
           ELSE /\ \E p \in Range(Options(columns, frame, AllRows(frame), PORTFOLIO_OBS_LEVEL, All)),
                      s \in Range(Options(columns, frame, AllRows(frame), SUB_PORTFOLIO_OBS_LEVEL, All)),
                      m \in Range(Options(columns, frame, AllRows(frame), PROJECT_MANAGER, All)),
                      b \in Range(Options(columns, frame, AllRows(frame), BRS_CLASSIFICATION, All)) :
                      selection' = [selection EXCEPT !.portfolio = p, !.sub_portfolio = s,
                                                     !.manager = m, !.brs_classification = b]
                /\ rendered' = rendered \cup {"sidebar_header"} \cup Range(FilterBoxes)
                /\ error' = error
                /\ pc' = "selected"
    /\ UNCHANGED <<clean_vars, raw_columns, columns, raw_frame, frame,
                   uploaded_file, namespace, filtered_df>>

\* lines 129, 131, 133, 135: the rows kept by one filter
keep(cols, fr, rows, name, selected) ==
    IF selected # All
    THEN SelectSeq(rows, LAMBDA r : Column(cols, fr, name).cells[r] = Text(selected))
    ELSE rows

\* lines 127-136 with every filter applied to df instead of filtered_df:
\* the last selection that is not 'All' decides alone
apply_filters_to_df(cols, fr, sel) ==
    LET rows == AllRows(fr)
        f1 == keep(cols, fr, rows, PORTFOLIO_OBS_LEVEL, sel.portfolio)
        f2 == IF sel.sub_portfolio # All
              THEN keep(cols, fr, rows, SUB_PORTFOLIO_OBS_LEVEL, sel.sub_portfolio) ELSE f1
        f3 == IF sel.manager # All
              THEN keep(cols, fr, rows, PROJECT_MANAGER, sel.manager) ELSE f2
    IN  IF sel.brs_classification # All
        THEN keep(cols, fr, rows, BRS_CLASSIFICATION, sel.brs_classification) ELSE f3

\* lines 127-136: the copy of df, narrowed by one filter after the other
apply_filters(cols, fr, sel) ==
    LET f0 == AllRows(fr)
        f1 == keep(cols, fr, f0, PORTFOLIO_OBS_LEVEL, sel.portfolio)
        f2 == keep(cols, fr, f1, SUB_PORTFOLIO_OBS_LEVEL, sel.sub_portfolio)
        f3 == keep(cols, fr, f2, PROJECT_MANAGER, sel.manager)
    IN  keep(cols, fr, f3, BRS_CLASSIFICATION, sel.brs_classification)

\* name = kind for each of the names, in the namespace ns
Bind(ns, names, kind) == [n \in ScriptNames |-> IF n \in names THEN kind ELSE ns[n]]

\* lines 127-136
ApplyFilters ==
    /\ pc = "selected"
    /\ filtered_df' = apply_filters(columns, frame, selection)
    /\ namespace' = Bind(namespace, {"filtered_df"}, "value")
    /\ pc' = "filtered"
    /\ UNCHANGED <<clean_vars, raw_columns, columns, raw_frame, frame, error,
                   uploaded_file, rendered, selection>>

MetricColumns == <<BUSINESS_ALLOCATION, CURRENT_EAC, TOTAL_ACTUALS_TO_DATE>>

MetricNames ==
    <<"total_business_allocation", "total_current_eac", "total_actuals_to_date">>

MetricBoxes ==
    <<"metric_business_allocation", "metric_current_eac", "metric_actuals_to_date">>

\* lines 138-152: the three sums and the row count, each assigned and
\* shown in turn; a column the table does not have raises KeyError there
Metrics ==
    /\ pc = "filtered"
    /\ LET missing == Missing(columns, MetricColumns)
           done == IF missing = <<>> THEN 3
                   ELSE IndexOf(MetricColumns, Head(missing)) - 1
       IN  /\ namespace' = Bind(namespace,
                                { MetricNames[j] : j \in 1..done }
                                    \cup (IF missing = <<>> THEN {"total_projects"} ELSE {}),
                                "value")
           /\ rendered' = rendered \cup {"metrics_header"}
                   \cup { MetricBoxes[j] : j \in 1..done }
                   \cup (IF missing = <<>> THEN {"metric_projects"} ELSE {})
           /\ error' = IF missing = <<>> THEN error ELSE Raised("KeyError", Head(missing))
           /\ pc' = IF missing = <<>> THEN "metrics" ELSE "script_raised"
    /\ UNCHANGED <<clean_vars, raw_columns, columns, raw_frame, frame,
                   uploaded_file, selection, filtered_df>>

\* lines 158-164 and 525-531: the columns of the project table
TableColumns ==
    <<PORTFOLIO_OBS_LEVEL, SUB_PORTFOLIO_OBS_LEVEL, MASTER_PROJECT_ID,
      PROJECT_NAME, PROJECT_MANAGER, BRS_CLASSIFICATION,
      BUSINESS_ALLOCATION, CURRENT_EAC, ALL_PRIOR_YEARS_ACTUALS,
      TOTAL_2025_ACTUALS, TOTAL_2025_FORECASTS, TOTAL_2025_CAPITAL_PLAN,
      QE_FORECAST_VS_QE_PLAN, FORECAST_VS_BA>>

\* lines 156-176: filtered_df[[...]] raises KeyError when the table lacks
\* one of the listed columns
ProjectTable ==
    /\ pc = "metrics"
    /\ LET missing == Missing(columns, TableColumns)
       IN  IF missing # <<>>
           THEN /\ rendered' = rendered \cup {"project_table_header"}
                /\ error' = Raised("KeyError", Head(missing))
                /\ pc' = "script_raised"
           ELSE /\ rendered' = rendered \cup {"project_table_header", "project_table"}
                /\ error' = error
                /\ pc' = "table"
    /\ UNCHANGED <<clean_vars, raw_columns, columns, raw_frame, frame,
                   uploaded_file, namespace, selection, filtered_df>>

\* lines 178-224: monthly_combined_df is assigned in any case, the figure
\* only inside the branch taken when the table has a monthly column
MonthlyTrends ==
    /\ pc = "table"
    /\ LET present == monthly_cols(columns, SuffixA) \o monthly_cols(columns, SuffixF)
                          \o monthly_cols(columns, SuffixCP)
           ns == Bind(namespace, {"monthly_combined_df"}, "value")
       IN  IF present # <<>>
           THEN /\ namespace' = Bind(ns, {"fig_monthly_trends"}, "figure")
                /\ rendered' = rendered \cup {"monthly_trends_header", "monthly_trends_chart"}
           ELSE /\ namespace' = ns
                /\ rendered' = rendered \cup {"monthly_trends_header", "monthly_trends_warning"}
    /\ pc' = "trends"
    /\ UNCHANGED <<clean_vars, raw_columns, columns, raw_frame, frame, error,
                   uploaded_file, selection, filtered_df>>

\* lines 226-264: both figures start as None
Variance ==
    /\ pc = "trends"
    /\ LET qe == QE_FORECAST_VS_QE_PLAN \in Range(columns)
           ba == FORECAST_VS_BA \in Range(columns)
           ns == Bind(namespace, {"fig_qe_variance"}, IF qe THEN "figure" ELSE "None")
       IN  /\ namespace' = Bind(ns, {"fig_ba_variance"}, IF ba THEN "figure" ELSE "None")
           /\ rendered' = rendered \cup {"variance_header"}
                   \cup {IF qe THEN "qe_variance_chart" ELSE "qe_variance_info"}
                   \cup {IF ba THEN "ba_variance_chart" ELSE "ba_variance_info"}
    /\ pc' = "variance"
    /\ UNCHANGED <<clean_vars, raw_columns, columns, raw_frame, frame, error,
                   uploaded_file, selection, filtered_df>>

\* not filtered_df[name].isnull().all()
HasData(cols, fr, rows, name) ==
    \E k \in 1..Len(rows) : Column(cols, fr, name).cells[rows[k]] # NaN

\* lines 266-315: the three figures start as None; a pie is drawn for a
\* column with some value in the filtered rows
Allocation ==
    /\ pc = "variance"
    /\ LET with == BUSINESS_ALLOCATION \in Range(columns)
           pie(name) == with /\ HasData(columns, frame, filtered_df, name)
           kind(name) == IF pie(name) THEN "figure" ELSE "None"
           ns1 == Bind(namespace, {"fig_portfolio_alloc"}, kind(PORTFOLIO_OBS_LEVEL))
           ns2 == Bind(ns1, {"fig_sub_portfolio_alloc"}, kind(SUB_PORTFOLIO_OBS_LEVEL))
       IN  /\ namespace' = Bind(ns2, {"fig_brs_alloc"}, kind(BRS_CLASSIFICATION))
           /\ rendered' = rendered \cup {"allocation_header"}
                   \cup (IF with
                         THEN { IF pie(PORTFOLIO_OBS_LEVEL)
                                THEN "portfolio_alloc_chart" ELSE "portfolio_alloc_info",
                                IF pie(SUB_PORTFOLIO_OBS_LEVEL)
                                THEN "sub_portfolio_alloc_chart" ELSE "sub_portfolio_alloc_info",
                                IF pie(BRS_CLASSIFICATION)
                                THEN "brs_alloc_chart" ELSE "brs_alloc_info" }
                         ELSE {"allocation_info"})
    /\ pc' = "allocation"
    /\ UNCHANGED <<clean_vars, raw_columns, columns, raw_frame, frame, error,
                   uploaded_file, selection, filtered_df>>

\* lines 317-372: the project is chosen among the names of the filtered
\* rows; fig_project_monthly starts as None, project_details is assigned
\* only when a project is chosen
ProjectDetail ==
    /\ pc = "allocation"
    /\ \E name \in Range(Options(columns, frame, filtered_df, PROJECT_NAME, SelectAProject)) :
          LET chosen == name # SelectAProject
              ns1 == Bind(namespace, {"selected_project_name"}, "value")
              ns2 == Bind(ns1, {"fig_project_monthly"}, IF chosen THEN "figure" ELSE "None")
          IN  /\ selection' = [selection EXCEPT !.project = name]
              /\ namespace' = IF chosen THEN Bind(ns2, {"project_details"}, "value") ELSE ns2
              /\ rendered' = rendered \cup {"project_detail_header", "select_project"}
                      \cup (IF chosen
                            THEN {"project_metrics", "project_monthly_table",
                                  "project_monthly_chart"}
                            ELSE {"project_detail_info"})
    /\ pc' = "detail"
    /\ UNCHANGED <<clean_vars, raw_columns, columns, raw_frame, frame, error,
                   uploaded_file, filtered_df>>

\* lines 537-541: the names the call reads, left to right; project_details
\* is read only when a project is chosen
ReportArguments(sel) ==
    <<"filtered_df", "total_business_allocation", "total_current_eac",
      "total_actuals_to_date", "total_projects", "monthly_combined_df",
      "fig_monthly_trends", "fig_qe_variance", "fig_ba_variance",
      "fig_portfolio_alloc", "fig_sub_portfolio_alloc", "fig_brs_alloc",
      "selected_project_name">>
        \o (IF sel.project # SelectAProject THEN <<"project_details">> ELSE <<>>)
        \o <<"fig_project_monthly">>

\* lines 374-549: the button is rendered; pressed, the call of lines
\* 537-541 reads its arguments and a name never assigned raises NameError
ReportButton ==
    /\ pc = "detail"
    /\ \E pressed \in BOOLEAN :
          LET unbound == SelectSeq(ReportArguments(selection),
                                   LAMBDA n : namespace[n] = "unbound")
          IN  /\ selection' = [selection EXCEPT !.report = pressed]
              /\ IF pressed /\ unbound # <<>>
                 THEN /\ rendered' = rendered \cup {"report_header", "report_button"}
                      /\ error' = Raised("NameError", <<Head(unbound)>>)
                      /\ pc' = "script_raised"
                 ELSE /\ rendered' = rendered \cup {"report_header", "report_button"}
                              \cup (IF pressed THEN {"download_button"} ELSE {})
                      /\ error' = error
                      /\ pc' = "script_done"
    /\ UNCHANGED <<clean_vars, raw_columns, columns, raw_frame, frame,
                   uploaded_file, namespace, filtered_df>>

NextPage ==
    \/ StartScript
    \/ ReadCsv
    \/ Next
    \/ CheckEmpty
    \/ SelectFilters
    \/ ApplyFilters
    \/ Metrics
    \/ ProjectTable
    \/ MonthlyTrends
    \/ Variance
    \/ Allocation
    \/ ProjectDetail
    \/ ReportButton

SpecPage == InitPage /\ [][NextPage]_vars

----------------------------------------------------------------------------
(* The page script: unreadable file, sidebar filters, report button *)

(* C14: for a file pd.read_csv cannot parse, load_data reports the error     *)
(* and returns the empty table without running any normalisation, coercion   *)
(* or aggregation step; the page run then ends with the warning to upload    *)
(* valid data as the only other element: no filter, metric, chart or report  *)
(* button, and no script variable assigned.                                  *)
C14_UnreadableFileEndsInWarning ==
    uploaded_file = "unreadable" =>
        /\ pc \in {"script_start", "load_data", "returned", "script_done"}
        /\ columns = <<>>
        /\ frame = <<>>
        /\ error = NoError
        /\ namespace = Unbound
        /\ filtered_df = <<>>
        /\ pc = "returned" => rendered = {"error_loading"}
        /\ pc = "script_done" => rendered = {"error_loading", "warning_valid_data"}

\* the run on an unreadable file has ended, the warning shown
C14_Witness ==
    /\ uploaded_file = "unreadable"
    /\ pc = "script_done"
    /\ "error_loading" \in rendered
    /\ "warning_valid_data" \in rendered

\* the four selections, in the order of FilterColumns
Selected == <<selection.portfolio, selection.sub_portfolio, selection.manager,
              selection.brs_classification>>

\* row r equals every selection other than 'All' on its column
RowMatches(r) ==
    \A f \in 1..4 :
        Selected[f] # All =>
            /\ CellOf(FilterColumns[f], r).kind = "str"
            /\ CellOf(FilterColumns[f], r).text = Selected[f]

(* C15: for every combination of the four sidebar selections the filtering   *)
(* step leaves in filtered_df exactly the rows of the loaded table that      *)
(* equal each selection other than 'All' on its column, in their original    *)
(* order (every row when all four are 'All'), and leaves the loaded table    *)
(* as it was.                                                                *)
C15_FilteredRowsMatchSelections ==
    [][pc = "selected" =>
          /\ filtered_df' = SelectSeq([r \in 1..NumRows(frame) |-> r], RowMatches)
          /\ (Selected = <<All, All, All, All>> =>
                  filtered_df' = [r \in 1..NumRows(frame) |-> r])
          /\ frame' = frame
          /\ columns' = columns]_vars

\* two selections other than 'All' have kept one of the two rows
C15_Witness ==
    /\ pc = "filtered"
    /\ selection.portfolio # All
    /\ selection.sub_portfolio # All
    /\ selection.manager = All
    /\ NumRows(frame) = 2
    /\ Len(filtered_df) = 1

(* C16: when the report button has been pressed, every variable the call of  *)
(* generate_html_report reads was assigned earlier in the same script run,   *)
(* to a figure, to None or to a value.                                       *)
C16_ReportArgumentsAssigned ==
    selection.report =>
        \A n \in Range(ReportArguments(selection)) :
            namespace[n] \in {"figure", "None", "value"}

====
